---- MODULE Spec2Model ----
(***************************************************************************)
(* A model of src/src/data/get_nfl_data.py: the two pure helpers           *)
(* (convert_height_to_inches, half_ppr_scoring), the extraction helper     *)
(* pull_data_from_nfl_data_py and the pipeline process_data, whose pandas  *)
(* frames are modelled as [cols, idx, rows]: the set of column names, the  *)
(* sequence of index labels and the sequence of rows (records over cols).  *)
(*                                                                         *)
(* Fantasy points are floats in the source; here every score is an integer *)
(* number of fiftieths of a point (1/50 is the least common unit of the    *)
(* weights 0.1, 0.5 and 1/25), so 7.0 points is 350.                       *)
(***************************************************************************)
EXTENDS Integers, Sequences, FiniteSets, TLC

VARIABLES
    height_string,   \* convert_height_to_inches: its argument
    height_ret,      \* convert_height_to_inches: its outcome
    score_args,      \* half_ppr_scoring: its ten arguments
    score_ret,       \* half_ppr_scoring: its return value
    merge_in,        \* the collision-dropping join: its two frames and keys
    merge_ret,       \* the collision-dropping join: the joined frame
    pc,              \* process_data: the statement it is about to run
    args,            \* process_data: start_year, end_year, data_filepath
    extracts,        \* what nfl_data_py returns: weekly, roster, snap, team
    pulled,          \* whether the extracts were requested from nfl_data_py
    locals,          \* process_data: filepath and filename (or Unbound)
    data,            \* process_data: the frame `data` (and `summed`)
    error,           \* the exception that ended the run, or NoError
    dirs,            \* the filesystem: the directories that exist
    files,           \* the filesystem: path -> the table written there
    dirs0            \* the directories that existed when the run started

vars == <<height_string, height_ret, score_args, score_ret, merge_in, merge_ret,
          pc, args, extracts, pulled, locals, data, error, dirs, files, dirs0>>

pure_vars == <<height_string, height_ret, score_args, score_ret, merge_in, merge_ret>>
pipe_vars == <<pc, args, extracts, pulled, locals, data, error, dirs, files, dirs0>>

-----------------------------------------------------------------------------
(* Strings, as Python sees them.                                           *)

Digits == "0123456789"

IsDigit(c) == \E i \in 1..10 : SubSeq(Digits, i, i) = c

DigitVal(c) == (CHOOSE i \in 1..10 : SubSeq(Digits, i, i) = c) - 1

\* sub in s
Contains(s, sub) ==
    \E i \in 1..(Len(s) - Len(sub) + 1) : SubSeq(s, i, i + Len(sub) - 1) = sub

\* The positions of the one-character delimiter d in s.
DelimPositions(s, d) == {i \in 1..Len(s) : SubSeq(s, i, i) = d}

RECURSIVE SplitFrom(_, _, _)
SplitFrom(s, d, from) ==
    LET later == {i \in DelimPositions(s, d) : i >= from} IN
    IF later = {} THEN <<SubSeq(s, from, Len(s))>>
    ELSE LET p == CHOOSE i \in later : \A j \in later : i <= j
         IN  <<SubSeq(s, from, p - 1)>> \o SplitFrom(s, d, p + 1)

\* s.split(d) for a one-character d: always at least one part.
Split(s, d) == SplitFrom(s, d, 1)

RECURSIVE StripLeft(_)
StripLeft(s) ==
    IF Len(s) > 0 /\ SubSeq(s, 1, 1) = " " THEN StripLeft(SubSeq(s, 2, Len(s))) ELSE s

RECURSIVE StripRight(_)
StripRight(s) ==
    IF Len(s) > 0 /\ SubSeq(s, Len(s), Len(s)) = " "
    THEN StripRight(SubSeq(s, 1, Len(s) - 1)) ELSE s

\* What int() is left with once blanks and a sign are taken off.
Unsigned(s) ==
    LET t == StripRight(StripLeft(s)) IN
    IF Len(t) > 0 /\ SubSeq(t, 1, 1) \in {"+", "-"} THEN SubSeq(t, 2, Len(t)) ELSE t

IsNegative(s) ==
    LET t == StripLeft(s) IN Len(t) > 0 /\ SubSeq(t, 1, 1) = "-"

\* int(s) succeeds: digits, single underscores allowed between digits.
IntParsable(s) ==
    LET u == Unsigned(s) IN
    /\ Len(u) > 0
    /\ IsDigit(SubSeq(u, 1, 1))
    /\ IsDigit(SubSeq(u, Len(u), Len(u)))
    /\ \A i \in 1..Len(u) : IsDigit(SubSeq(u, i, i)) \/ SubSeq(u, i, i) = "_"
    /\ \A i \in 1..(Len(u) - 1) : ~(SubSeq(u, i, i) = "_" /\ SubSeq(u, i + 1, i + 1) = "_")

RECURSIVE DigitsValue(_, _)
DigitsValue(u, acc) ==
    IF Len(u) = 0 THEN acc
    ELSE LET c == SubSeq(u, 1, 1) IN
         DigitsValue(SubSeq(u, 2, Len(u)), IF c = "_" THEN acc ELSE acc * 10 + DigitVal(c))

ParseInt(s) ==
    LET v == DigitsValue(Unsigned(s), 0) IN IF IsNegative(s) THEN 0 - v ELSE v

-----------------------------------------------------------------------------
(* convert_height_to_inches                                                *)

Raised(kind) == [ok |-> FALSE, error |-> kind]
Returned(v) == [ok |-> TRUE, value |-> v]

convert_height_to_inches(height_string_) ==
    LET height_string_split == Split(height_string_, "-") IN
    IF Len(height_string_split) < 2 THEN Raised("IndexError")
    ELSE LET feet == height_string_split[1]
             inches == height_string_split[2]
         IN  IF ~IntParsable(feet) \/ ~IntParsable(inches) THEN Raised("ValueError")
             ELSE Returned(ParseInt(feet) * 12 + ParseInt(inches))

-----------------------------------------------------------------------------
(* half_ppr_scoring, in fiftieths of a point                               *)

RUSHING_TD == 300
RECEIVING_TD == 300
RUSHING_YARDS == 5
RECEIVING_YARDS == 5
RECEPTIONS == 25
PASSING_TD == 200
INTERCEPTION == -50
FUMBLE == -100
PASSING_YARDS == 2
TWO_PT_CONVERSION == 100

ScoringWithFullPpr(rushing_tds, receiving_tds, rushing_yards, receiving_yards, receptions, passing_tds, interceptions, fumbles, passing_yards, two_pt_conversions) ==
    rushing_tds * RUSHING_TD + receiving_tds * RECEIVING_TD
    + rushing_yards * RUSHING_YARDS + receiving_yards * RECEIVING_YARDS
    + receptions * (2 * RECEPTIONS) + passing_tds * PASSING_TD
    + interceptions * INTERCEPTION + fumbles * FUMBLE
    + passing_yards * PASSING_YARDS + two_pt_conversions * TWO_PT_CONVERSION

half_ppr_scoring(rushing_tds, receiving_tds, rushing_yards, receiving_yards, receptions, passing_tds, interceptions, fumbles, passing_yards, two_pt_conversions) ==
    rushing_tds * RUSHING_TD
    + receiving_tds * RECEIVING_TD
    + rushing_yards * RUSHING_YARDS
    + receiving_yards * RECEIVING_YARDS
    + receptions * RECEPTIONS
    + passing_tds * PASSING_TD
    + interceptions * INTERCEPTION
    + fumbles * FUMBLE
    + passing_yards * PASSING_YARDS
    + two_pt_conversions * TWO_PT_CONVERSION

-----------------------------------------------------------------------------
(* pandas frames: [cols |-> column names, idx |-> index labels,            *)
(* rows |-> records over cols]; Len(idx) = Len(rows).                      *)

Frame(cols, idx, rows) == [cols |-> cols, idx |-> idx, rows |-> rows]

RangeIndex(n) == [i \in 1..n |-> i - 1]

RECURSIVE Ascending(_)
Ascending(S) ==
    IF S = {} THEN <<>>
    ELSE LET m == CHOOSE x \in S : \A y \in S : x <= y IN <<m>> \o Ascending(S \ {m})

\* frame[mask]: the rows at the positions in keep, labels kept.
TakeRows(f, keep) ==
    LET pos == Ascending(keep) IN
    Frame(f.cols, [k \in 1..Len(pos) |-> f.idx[pos[k]]], [k \in 1..Len(pos) |-> f.rows[pos[k]]])

Restrict(r, cols) == [c \in cols |-> r[c]]

\* frame.drop(names, axis=1); a name that is no column raises KeyError.
CanDropColumns(f, names) == names \subseteq f.cols

DropColumns(f, names) ==
    Frame(f.cols \ names, f.idx, [k \in 1..Len(f.rows) |-> Restrict(f.rows[k], f.cols \ names)])

\* frame[c] = values, one value per row, for a new or an existing column c.
Assign(f, c, values) ==
    Frame(f.cols \cup {c}, f.idx,
          [k \in 1..Len(f.rows) |->
              [x \in f.cols \cup {c} |-> IF x = c THEN values[k] ELSE f.rows[k][x]]])

\* The rows of f, as the domain of a column expression.
Rows(f) == 1..Len(f.rows)

\* Byte order of the characters that keys are made of.
Collation == "-0123456789ABCDEFGHIJKLMNOPQRSTUVWXYZ_abcdefghijklmnopqrstuvwxyz"

CharRank(c) == CHOOSE i \in 1..Len(Collation) : SubSeq(Collation, i, i) = c

RECURSIVE StrLess(_, _)
StrLess(a, b) ==
    IF Len(b) = 0 THEN FALSE
    ELSE IF Len(a) = 0 THEN TRUE
    ELSE LET x == CharRank(SubSeq(a, 1, 1))
             y == CharRank(SubSeq(b, 1, 1))
         IN  IF x # y THEN x < y
             ELSE StrLess(SubSeq(a, 2, Len(a)), SubSeq(b, 2, Len(b)))

\* The group key <<player_id, season, week>> and its sort order.
GroupKey(r) == <<r.player_id, r.season, r.week>>

KeyLess(a, b) ==
    \/ StrLess(a[1], b[1])
    \/ a[1] = b[1] /\ a[2] < b[2]
    \/ a[1] = b[1] /\ a[2] = b[2] /\ a[3] < b[3]

RECURSIVE SortedKeys(_)
SortedKeys(S) ==
    IF S = {} THEN <<>>
    ELSE LET m == CHOOSE x \in S : \A y \in S \ {x} : KeyLess(x, y)
         IN  <<m>> \o SortedKeys(S \ {m})

RECURSIVE SumOver(_, _, _)
SumOver(rows, c, key) ==
    IF Len(rows) = 0 THEN 0
    ELSE (IF GroupKey(Head(rows)) = key THEN Head(rows)[c] ELSE 0) + SumOver(Tail(rows), c, key)

\* groupby(...).first(): the first segment of every key, not the sum.
GroupByFirst(f, numeric) ==
    LET keys == SortedKeys({GroupKey(f.rows[k]) : k \in 1..Len(f.rows)})
        cols == {"player_id", "season", "week"} \cup (f.cols \cap numeric)
        first(key) == f.rows[CHOOSE k \in 1..Len(f.rows) :
                          /\ GroupKey(f.rows[k]) = key
                          /\ \A j \in 1..(k - 1) : GroupKey(f.rows[j]) # key]
    IN  Frame(cols, RangeIndex(Len(keys)), [g \in 1..Len(keys) |-> Restrict(first(keys[g]), cols)])

\* frame.groupby(['player_id', 'season', 'week']).sum().reset_index(): one
\* row per key, in key order; every numeric column summed, the columns of
\* strings left out (sum() over numeric columns, as pandas 1.x does).
GroupBySum(f, numeric) ==
    LET keys == SortedKeys({GroupKey(f.rows[k]) : k \in 1..Len(f.rows)})
        cols == {"player_id", "season", "week"} \cup (f.cols \cap numeric)
    IN  Frame(cols, RangeIndex(Len(keys)),
              [g \in 1..Len(keys) |->
                  [c \in cols |->
                      CASE c = "player_id" -> keys[g][1]
                        [] c = "season" -> keys[g][2]
                        [] c = "week" -> keys[g][3]
                        [] OTHER -> SumOver(f.rows, c, keys[g])]])

\* The pairs <<i, j>> of an inner join, in pandas' order: left order, and
\* for one left row its matches in right order.
RECURSIVE JoinPairs(_, _, _)
JoinPairs(matches, nl, i) ==
    IF i > nl THEN <<>>
    ELSE LET js == Ascending({j \in {m[2] : m \in matches} : <<i, j>> \in matches})
         IN  [k \in 1..Len(js) |-> <<i, js[k]>>] \o JoinPairs(matches, nl, i + 1)

\* pd.merge(left, right, left_on, right_on, how='inner', suffixes): a key
\* column named alike on both sides appears once; any other name carried by
\* both frames gets the suffixes.  (No frame here holds a name that a suffixed
\* name would repeat; pandas' answer to that differs by version.)
Merge(left, right, left_on, right_on, lsuffix, rsuffix) ==
    LET shared == {left_on[k] : k \in {k \in 1..Len(left_on) : left_on[k] = right_on[k]}}
        rcols == right.cols \ shared
        overlap == left.cols \cap rcols
        lname(c) == IF c \in overlap THEN c \o lsuffix ELSE c
        rname(c) == IF c \in overlap THEN c \o rsuffix ELSE c
        lnames == {lname(c) : c \in left.cols}
        rnames == {rname(c) : c \in rcols}
        matches == {m \in (1..Len(left.rows)) \X (1..Len(right.rows)) :
                       \A k \in 1..Len(left_on) :
                           left.rows[m[1]][left_on[k]] = right.rows[m[2]][right_on[k]]}
        pairs == JoinPairs(matches, Len(left.rows), 1)
    IN  Frame(lnames \cup rnames, RangeIndex(Len(pairs)),
              [p \in 1..Len(pairs) |->
                  [n \in lnames \cup rnames |->
                      IF n \in lnames
                      THEN left.rows[pairs[p][1]][CHOOSE c \in left.cols : lname(c) = n]
                      ELSE right.rows[pairs[p][2]][CHOOSE c \in rcols : rname(c) = n]]])

\* frame.filter(regex='^(?!.*_DROP)'): the columns whose name holds no _DROP.
FilterNotDrop(f) ==
    LET keep == {c \in f.cols : ~Contains(c, "_DROP")} IN
    Frame(keep, f.idx, [k \in 1..Len(f.rows) |-> Restrict(f.rows[k], keep)])

\* pd.merge(..., suffixes=('', '_DROP')).filter(regex='^(?!.*_DROP)')
MergeDropRight(left, right, left_on, right_on) ==
    FilterNotDrop(Merge(left, right, left_on, right_on, "", "_DROP"))

\* frame.rename(columns=mapping): names the mapping does not hold stay.
Rename(f, from, to) ==
    LET new(c) == IF \E k \in 1..Len(from) : from[k] = c
                  THEN to[CHOOSE k \in 1..Len(from) : from[k] = c] ELSE c
        cols == {new(c) : c \in f.cols}
    IN  Frame(cols, f.idx,
              [k \in 1..Len(f.rows) |->
                  [n \in cols |-> f.rows[k][CHOOSE c \in f.cols : new(c) = n]]])

\* pd.get_dummies(frame[c]): one indicator column per observed value.
GetDummies(f, c) ==
    LET values == {f.rows[k][c] : k \in 1..Len(f.rows)} IN
    Frame(values, f.idx,
          [k \in 1..Len(f.rows) |-> [v \in values |-> IF f.rows[k][c] = v THEN 1 ELSE 0]])

\* how='cross': every left row with every right row, whatever the labels.
MergeCross(left, right) ==
    LET pairs == JoinPairs((1..Len(left.rows)) \X (1..Len(right.rows)), Len(left.rows), 1)
    IN  Frame(left.cols \cup right.cols, RangeIndex(Len(pairs)),
              [p \in 1..Len(pairs) |->
                  [c \in left.cols \cup right.cols |->
                      IF c \in left.cols THEN left.rows[pairs[p][1]][c]
                      ELSE right.rows[pairs[p][2]][c]]])

\* pd.merge(left, right, left_index=True, right_index=True, how='inner'):
\* rows pair up by equal index label; the frames share no column here.
MergeOnIndex(left, right) ==
    LET matches == {m \in (1..Len(left.rows)) \X (1..Len(right.rows)) :
                       left.idx[m[1]] = right.idx[m[2]]}
        pairs == JoinPairs(matches, Len(left.rows), 1)
    IN  Frame(left.cols \cup right.cols, [p \in 1..Len(pairs) |-> left.idx[pairs[p][1]]],
              [p \in 1..Len(pairs) |->
                  [c \in left.cols \cup right.cols |->
                      IF c \in left.cols THEN left.rows[pairs[p][1]][c]
                      ELSE right.rows[pairs[p][2]][c]]])

KeepAllRows(f) == f

\* frame.drop_duplicates(): the first of every run of rows equal in every column.
DropDuplicates(f) ==
    TakeRows(f, {k \in 1..Len(f.rows) : \A j \in 1..(k - 1) : f.rows[j] # f.rows[k]})

-----------------------------------------------------------------------------
(* The extracts nfl_data_py returns.  A float column that may hold NaN     *)
(* (rookie_year) holds <<>> for NaN and <<v>> for v.                       *)

NaN == <<>>
Float(v) == <<v>>

UpperCase == "ABCDEFGHIJKLMNOPQRSTUVWXYZ"
LowerCase == "abcdefghijklmnopqrstuvwxyz"

RECURSIVE Lower(_)
Lower(s) ==
    IF Len(s) = 0 THEN s
    ELSE LET c == SubSeq(s, 1, 1)
             l == IF \E i \in 1..26 : SubSeq(UpperCase, i, i) = c
                  THEN LET i == CHOOSE i \in 1..26 : SubSeq(UpperCase, i, i) = c
                       IN  SubSeq(LowerCase, i, i)
                  ELSE c
         IN  l \o Lower(SubSeq(s, 2, Len(s)))

StatCols ==
    {"rushing_tds", "receiving_tds", "rushing_yards", "receiving_yards", "receptions",
     "passing_tds", "interceptions", "sack_fumbles_lost", "rushing_fumbles_lost",
     "receiving_fumbles_lost", "passing_yards", "passing_2pt_conversions",
     "rushing_2pt_conversions", "receiving_2pt_conversions"}

WeeklyNumericCols ==
    StatCols \cup {"fantasy_points", "fantasy_points_ppr", "sacks", "sack_yards",
                   "sack_fumbles", "special_teams_tds"}

\* One game segment of a player's week; fantasy_points and fantasy_points_ppr
\* are the source's own totals, in fiftieths.  The key columns are never null.
Segment(player_id, season, week, stats) ==
    stats @@ [c \in WeeklyNumericCols |-> 0]
          @@ [player_id |-> player_id, season |-> season, week |-> week,
              player_display_name |-> player_id, recent_team |-> "KC"]

Run30 == [rushing_yards |-> 30, rushing_tds |-> 1, fantasy_points |-> 450,
          fantasy_points_ppr |-> 450]
Fumble20 == [rushing_yards |-> 20, rushing_fumbles_lost |-> 1, fantasy_points |-> 0,
             fantasy_points_ppr |-> 0]
Catch == [receptions |-> 1, receiving_2pt_conversions |-> 0, fantasy_points |-> 0,
          fantasy_points_ppr |-> 50]
Bye == [fantasy_points |-> 0, fantasy_points_ppr |-> 0]
Pass25 == [passing_yards |-> 25, passing_tds |-> 1, interceptions |-> 1,
           passing_2pt_conversions |-> 1, sack_fumbles_lost |-> 1,
           fantasy_points |-> 200, fantasy_points_ppr |-> 200]

SegmentChoices ==
    <<Segment("P1", 2020, 3, Run30), Segment("P1", 2020, 3, Fumble20),
      Segment("P1", 2020, 3, Catch), Segment("P1", 2020, 4, Run30),
      Segment("P2", 2020, 3, Pass25), Segment("P2", 2020, 3, Bye)>>

RosterDroppedCols ==
    {"espn_id", "sportradar_id", "yahoo_id", "rotowire_id", "pff_id", "fantasy_data_id",
     "sleeper_id", "esb_id", "gsis_it_id", "smart_id", "ngs_position", "entry_year",
     "player_name", "birth_date", "jersey_number", "college", "depth_chart_position"}

RosterRow(player_id, season, team, position, rookie_year, status, height) ==
    [player_id |-> player_id, season |-> season, team |-> team, position |-> position,
     rookie_year |-> rookie_year, status |-> status, height |-> height, weight |-> 220,
     first_name |-> IF player_id = "P1" THEN "Derrick" ELSE "Tom",
     last_name |-> IF player_id = "P1" THEN "Henry" ELSE "Brady",
     pfr_id |-> "pfr" \o player_id, headshot_url |-> "url"]
    @@ [c \in RosterDroppedCols |-> "x"]

RosterChoices ==
    <<RosterRow("P1", 2020, "KC", "RB", Float(2019), "Active", "6-0"),
      RosterRow("P1", 2019, "SF", "RB", Float(2019), "Active", "6-0"),
      RosterRow("P1", 2018, "KC", "RB", Float(2019), "Active", "6-0"),
      RosterRow("P2", 2020, "SF", "QB", Float(2018), "Inactive", "6-2"),
      RosterRow("P2", 2020, "SF", "K", Float(2018), "Active", "72"),
      RosterRow("P2", 2020, "SF", "QB", NaN, "Inactive", "6-2"),
      RosterRow("P2", 2020, "SF", "TE", Float(2018), "Inactive", "72")>>

SnapRow(player_id, week, game_type, position, team, opponent) ==
    [game_id |-> game_type \o "_KC_SF", pfr_game_id |-> "pfr_" \o game_type,
     season |-> 2020, game_type |-> game_type,
     week |-> week, player |-> player_id, pfr_player_id |-> "pfr" \o player_id,
     position |-> position, team |-> team, opponent |-> opponent,
     offense_snaps |-> 40, offense_pct |-> 60, defense_snaps |-> 0, defense_pct |-> 0,
     st_snaps |-> 0, st_pct |-> 0]

SnapChoices ==
    <<SnapRow("P1", 3, "REG", "RB", "KC", "SF"), SnapRow("P1", 3, "POST", "RB", "KC", "SF"),
      SnapRow("P2", 3, "REG", "QB", "SF", "KC")>>

TeamInfo ==
    Frame({"team_abbr", "team_conf", "team_division"}, RangeIndex(2),
          <<[team_abbr |-> "KC", team_conf |-> "AFC", team_division |-> "AFC West"],
            [team_abbr |-> "SF", team_conf |-> "NFC", team_division |-> "NFC West"]>>)

MaxSegments == 2
MaxRoster == 2

\* The frame of the rows of `choices` at the positions in `picked`.
FrameOf(choices, picked) ==
    LET pos == Ascending(picked) IN
    Frame(DOMAIN choices[1], RangeIndex(Len(pos)), [k \in 1..Len(pos) |-> choices[pos[k]]])

Picks(choices, max) == {S \in SUBSET (1..Len(choices)) : Cardinality(S) <= max}

WeeklyInputs == {FrameOf(SegmentChoices, S) : S \in Picks(SegmentChoices, MaxSegments)}
\* RosterAttribute holds one row per player per season.
RosterInputs ==
    {FrameOf(RosterChoices, S) :
        S \in {T \in Picks(RosterChoices, MaxRoster) :
                  \A i, j \in T :
                      (/\ RosterChoices[i].player_id = RosterChoices[j].player_id
                       /\ RosterChoices[i].season = RosterChoices[j].season) => i = j}}
SnapInputs == {FrameOf(SnapChoices, S) : S \in SUBSET (1..Len(SnapChoices))}

\* A roster extract whose schema has drifted: no college column.
RosterWithoutCollege == DropColumns(FrameOf(RosterChoices, {1}), {"college"})

DefaultArgs == [start_year |-> 2013, end_year |-> 2021, data_filepath |-> "data/data.csv"]

BaseExtracts ==
    [weekly |-> FrameOf(SegmentChoices, {1, 2}), roster |-> FrameOf(RosterChoices, {1}),
     snap |-> FrameOf(SnapChoices, {1}), team |-> TeamInfo]

YearChoices == {<<2013, 2021>>, <<2021, 2021>>, <<2021, 2013>>}

\* <<data_filepath, the directories that exist>>
PathChoices ==
    {<<"data/data.csv", {}>>, <<"data/data.csv", {"data"}>>, <<"data.csv", {}>>,
     <<"data", {"data"}>>, <<"out/2021/data.csv", {"out"}>>}

Runs ==
    {[args |-> DefaultArgs, dirs |-> {},
      extracts |-> [weekly |-> w, roster |-> r, snap |-> s, team |-> TeamInfo]] :
        w \in WeeklyInputs, r \in RosterInputs \cup {RosterWithoutCollege}, s \in SnapInputs}
    \cup
    {[args |-> [start_year |-> y[1], end_year |-> y[2], data_filepath |-> p[1]],
      dirs |-> p[2], extracts |-> BaseExtracts] : y \in YearChoices, p \in PathChoices}

-----------------------------------------------------------------------------
(* os.path and the filesystem                                              *)

SlashPositions(p) == {i \in 1..Len(p) : SubSeq(p, i, i) = "/"}

RECURSIVE StripSlashes(_)
StripSlashes(p) ==
    IF Len(p) > 0 /\ SubSeq(p, Len(p), Len(p)) = "/"
    THEN StripSlashes(SubSeq(p, 1, Len(p) - 1)) ELSE p

\* os.path.split(p): <<head, tail>>, split at the last slash.
PathSplit(p) ==
    LET i == IF SlashPositions(p) = {} THEN 0
             ELSE CHOOSE x \in SlashPositions(p) : \A y \in SlashPositions(p) : y <= x
        head == SubSeq(p, 1, i)
    IN  <<IF StripSlashes(head) = "" THEN head ELSE StripSlashes(head),
          SubSeq(p, i + 1, Len(p))>>

\* os.path.join(a, b)
PathJoin(a, b) ==
    IF Len(b) > 0 /\ SubSeq(b, 1, 1) = "/" THEN b
    ELSE IF a = "" \/ SubSeq(a, Len(a), Len(a)) = "/" THEN a \o b
    ELSE a \o "/" \o b

\* os.path.isdir(p)
IsDir(p, existing) == p \in existing

\* p and every ancestor of p: what os.makedirs(p) leaves existing.
WithParents(p) == {p} \cup {SubSeq(p, 1, i - 1) : i \in {x \in SlashPositions(p) : x > 1}}

\* os.makedirs('') raises FileNotFoundError.
CanMakeDirs(p) == p # ""

Unbound(name) == name \notin locals.bound

Fail(kind) ==
    /\ pc' = "failed"
    /\ error' = kind

-----------------------------------------------------------------------------
(* process_data                                                            *)

\* Lines 123-129: 'Checking filepaths...'
CheckFilepaths ==
    /\ pc = "check_filepaths"
    /\ IF IsDir(args.data_filepath, dirs)
       THEN /\ locals' = [locals EXCEPT !.bound = @ \cup {"filename"}, !.filename = "data.csv"]
            /\ pc' = "pull"
            /\ UNCHANGED <<dirs, error>>
       ELSE LET split == PathSplit(args.data_filepath) IN
            /\ locals' = [bound |-> {"filepath", "filename"}, filepath |-> split[1],
                          filename |-> split[2]]
            /\ IF IsDir(split[1], dirs)
               THEN pc' = "pull" /\ UNCHANGED <<dirs, error>>
               ELSE IF CanMakeDirs(split[1])
                    THEN /\ dirs' = dirs \cup WithParents(split[1])
                         /\ pc' = "pull"
                         /\ UNCHANGED error
                    ELSE Fail("FileNotFoundError") /\ UNCHANGED dirs
    /\ UNCHANGED <<args, extracts, pulled, data, files, dirs0>>
    /\ UNCHANGED pure_vars

ExtractAfterAssert ==
    /\ pc = "pull"
    /\ pulled' = TRUE
    /\ IF args.end_year > args.start_year
       THEN pc' = "aggregate" /\ UNCHANGED error
       ELSE Fail("AssertionError")
    /\ UNCHANGED <<args, extracts, locals, data, dirs, files, dirs0>>
    /\ UNCHANGED pure_vars

\* Lines 96-104 and 131-135: the assert, then the nfl_data_py extracts.
pull_data_from_nfl_data_py ==
    /\ pc = "pull"
    /\ IF args.end_year > args.start_year
       THEN /\ pulled' = TRUE
            /\ pc' = "aggregate"
            /\ UNCHANGED error
       ELSE Fail("AssertionError") /\ UNCHANGED pulled
    /\ UNCHANGED <<args, extracts, locals, data, dirs, files, dirs0>>
    /\ UNCHANGED pure_vars

\* The run goes on to statement `to` with `frame` as data.
Goto(to, frame) ==
    /\ pc' = to
    /\ data' = frame
    /\ UNCHANGED <<args, extracts, pulled, locals, error, dirs, files, dirs0>>
    /\ UNCHANGED pure_vars

\* The statement raises: the exception propagates and ends the run.
Raise(kind) ==
    /\ Fail(kind)
    /\ UNCHANGED <<args, extracts, pulled, locals, data, dirs, files, dirs0>>
    /\ UNCHANGED pure_vars

\* Line 138
Aggregate ==
    /\ pc = "aggregate"
    /\ Goto("join_roster", GroupBySum(extracts.weekly, WeeklyNumericCols))

\* Lines 139-146
JoinRoster ==
    /\ pc = "join_roster"
    /\ Goto("drop_roster_columns",
            MergeDropRight(data, extracts.roster, <<"player_id">>, <<"player_id">>))

columns_to_drop_148 ==
    {"sacks", "sack_yards", "sack_fumbles", "espn_id", "sportradar_id", "yahoo_id",
     "rotowire_id", "pff_id", "fantasy_data_id", "sleeper_id", "esb_id", "gsis_it_id",
     "smart_id", "ngs_position", "entry_year", "player_name", "birth_date",
     "jersey_number", "special_teams_tds", "college", "depth_chart_position"}

\* Lines 148-171
DropRosterColumns ==
    /\ pc = "drop_roster_columns"
    /\ IF CanDropColumns(data, columns_to_drop_148)
       THEN Goto("filter_players", DropColumns(data, columns_to_drop_148))
       ELSE Raise("KeyError")

SkillPositions == {"WR", "RB", "TE", "QB"}

\* Lines 172-174
FilterPositions(f) ==
    TakeRows(f, {k \in 1..Len(f.rows) : f.rows[k].position \in SkillPositions})

\* Lines 175-177
FilterRookieYear(f) ==
    LET known == TakeRows(f, {k \in 1..Len(f.rows) : f.rows[k].rookie_year # NaN})
        cast == Assign(known, "rookie_year", [k \in Rows(known) |-> known.rows[k].rookie_year[1]])
    IN  Assign(cast, "years_exp",
               [k \in Rows(cast) |-> cast.rows[k].season - cast.rows[k].rookie_year])

FilterPlayers ==
    /\ pc = "filter_players"
    /\ Goto("convert_heights", FilterRookieYear(FilterPositions(data)))

\* Lines 178-181
ConvertHeights ==
    /\ pc = "convert_heights"
    /\ IF \A k \in 1..Len(data.rows) : convert_height_to_inches(data.rows[k].height).ok
       THEN Goto("filter_active",
                 LET inches == Assign(data, "height",
                                      [k \in Rows(data) |->
                                          convert_height_to_inches(data.rows[k].height).value])
                     lean == DropColumns(inches, {"weight"})
                     first == Assign(lean, "first_name",
                                     [k \in Rows(lean) |-> Lower(lean.rows[k].first_name)])
                 IN  Assign(first, "last_name",
                            [k \in Rows(first) |-> Lower(first.rows[k].last_name)]))
       ELSE Raise(LET k == CHOOSE k \in 1..Len(data.rows) :
                               /\ ~convert_height_to_inches(data.rows[k].height).ok
                               /\ \A j \in 1..(k - 1) :
                                      convert_height_to_inches(data.rows[j].height).ok
                  IN  convert_height_to_inches(data.rows[k].height).error)

KeepInactive(f) == DropColumns(f, {"status"})

\* Lines 183-191
FilterActive(f) ==
    LET by_points == Assign(f, "status",
                            [k \in Rows(f) |->
                                IF f.rows[k].fantasy_points > 0 THEN "Active"
                                ELSE f.rows[k].status])
        by_ppr == Assign(by_points, "status",
                         [k \in Rows(by_points) |->
                             IF by_points.rows[k].fantasy_points_ppr > 0 THEN "Active"
                             ELSE by_points.rows[k].status])
        rows_to_drop == {by_ppr.idx[k] : k \in {k \in 1..Len(by_ppr.rows) :
                            /\ by_ppr.rows[k].fantasy_points <= 0
                            /\ by_ppr.rows[k].status # "Active"}}
        kept == TakeRows(by_ppr, {k \in 1..Len(by_ppr.rows) : by_ppr.idx[k] \notin rows_to_drop})
    IN  DropColumns(kept, {"status"})

DropInactive ==
    /\ pc = "filter_active"
    /\ Goto("join_snap", FilterActive(data))

\* Lines 193-201
JoinSnap ==
    /\ pc = "join_snap"
    /\ Goto("filter_regular_season",
            LET positions == {data.rows[k].position : k \in 1..Len(data.rows)}
                snap == TakeRows(extracts.snap,
                                 {k \in 1..Len(extracts.snap.rows) :
                                     extracts.snap.rows[k].position \in positions})
            IN  MergeDropRight(data, snap, <<"pfr_id", "season", "week">>,
                               <<"pfr_player_id", "season", "week">>))

columns_to_drop_204 ==
    {"pfr_id", "game_id", "pfr_game_id", "game_type", "player", "pfr_player_id",
     "defense_snaps", "defense_pct", "st_snaps", "st_pct", "fantasy_points",
     "fantasy_points_ppr"}

\* Line 202
FilterRegularSeason(f) ==
    TakeRows(f, {k \in 1..Len(f.rows) : f.rows[k].game_type = "REG"})

\* Lines 202-222
DropSnapColumns ==
    /\ pc = "filter_regular_season"
    /\ IF CanDropColumns(data, columns_to_drop_204)
       THEN Goto("join_teams", DropColumns(FilterRegularSeason(data), columns_to_drop_204))
       ELSE Raise("KeyError")

\* Lines 224-251
JoinTeams ==
    /\ pc = "join_teams"
    /\ LET own == Merge(data, extracts.team, <<"team">>, <<"team_abbr">>, "_x", "_y")
           both == Merge(own, extracts.team, <<"opponent">>, <<"team_abbr">>, "_x", "_y")
           named == Rename(both,
                           <<"team_abbr_y", "team_conf_y", "team_division_y",
                             "team_abbr_x", "team_conf_x", "team_division_x">>,
                           <<"opponent_abbr", "opponent_conf", "opponent_division",
                             "team_abbr", "team_conf", "team_division">>)
       IN  IF CanDropColumns(named, {"team_abbr", "opponent_abbr"})
           THEN Goto("one_hot", DropColumns(named, {"team_abbr", "opponent_abbr"}))
           ELSE Raise("KeyError")

\* Lines 297-303
OneHotPosition ==
    /\ pc = "one_hot"
    /\ Goto("drop_shape_columns", MergeOnIndex(data, GetDummies(data, "position")))

columns_to_drop_305 ==
    {"team_conf", "team_division", "opponent_conf", "opponent_division", "position",
     "headshot_url"}

\* Lines 305-321; the frame's columns are a set, so the three insert(pop)
\* calls that move player_id, first_name and last_name to the front change nothing.
DropShapeColumns ==
    /\ pc = "drop_shape_columns"
    /\ IF CanDropColumns(data, columns_to_drop_305)
       THEN Goto("drop_duplicates", DropColumns(data, columns_to_drop_305))
       ELSE Raise("KeyError")

\* Line 366
DropDuplicateRows ==
    /\ pc = "drop_duplicates"
    /\ Goto("score", DropDuplicates(data))

\* Lines 370-381: the lambda applied to each row
ScoreRow(x) ==
    half_ppr_scoring(x.rushing_tds, x.receiving_tds, x.rushing_yards, x.receiving_yards,
                     x.receptions, x.passing_tds, x.interceptions,
                     x.sack_fumbles_lost + x.rushing_fumbles_lost + x.receiving_fumbles_lost,
                     x.passing_yards,
                     x.passing_2pt_conversions + x.rushing_2pt_conversions
                         + x.receiving_2pt_conversions)

\* Lines 368-383.  On a frame with no rows DataFrame.apply(axis=1) returns an
\* empty frame, not a column, and whether assigning it to one column raises
\* depends on the pandas in use: both outcomes are kept.
ScoreRows ==
    /\ pc = "score"
    /\ \/ Goto("write", Assign(data, "fantasy_half_ppr",
                               [k \in Rows(data) |-> ScoreRow(data.rows[k])]))
       \/ /\ Len(data.rows) = 0
          /\ Raise("ValueError")

\* Lines 385-389
WriteCsv ==
    /\ pc = "write"
    /\ IF Unbound("filepath")
       THEN Fail("UnboundLocalError") /\ UNCHANGED files
       ELSE LET path == PathJoin(locals.filepath, locals.filename) IN
            /\ files' = {f \in files : f.path # path}
                            \cup {[path |-> path, cols |-> data.cols, rows |-> data.rows]}
            /\ pc' = "done"
            /\ UNCHANGED error
    /\ UNCHANGED <<args, extracts, pulled, locals, data, dirs, dirs0>>
    /\ UNCHANGED pure_vars

NoFrame == Frame({}, <<>>, <<>>)

PureIdle ==
    /\ height_string = ""
    /\ height_ret = Raised("not called")
    /\ score_args = <<>>
    /\ score_ret = Raised("not called")
    /\ merge_in = <<>>
    /\ merge_ret = NoFrame

PipeIdle ==
    /\ pc = "idle"
    /\ args = DefaultArgs
    /\ extracts = BaseExtracts
    /\ pulled = FALSE
    /\ locals = [bound |-> {}, filepath |-> "", filename |-> ""]
    /\ data = NoFrame
    /\ error = ""
    /\ dirs = {}
    /\ files = {}
    /\ dirs0 = {}

Init ==
    /\ PureIdle
    /\ \E run \in Runs :
        /\ args = run.args
        /\ extracts = run.extracts
        /\ dirs = run.dirs
        /\ dirs0 = run.dirs
    /\ pc = "check_filepaths"
    /\ pulled = FALSE
    /\ locals = [bound |-> {}, filepath |-> "", filename |-> ""]
    /\ data = NoFrame
    /\ error = ""
    /\ files = {}

Next ==
    \/ CheckFilepaths
    \/ pull_data_from_nfl_data_py
    \/ Aggregate
    \/ JoinRoster
    \/ DropRosterColumns
    \/ FilterPlayers
    \/ ConvertHeights
    \/ DropInactive
    \/ JoinSnap
    \/ DropSnapColumns
    \/ JoinTeams
    \/ OneHotPosition
    \/ DropShapeColumns
    \/ DropDuplicateRows
    \/ ScoreRows
    \/ WriteCsv

Spec == Init /\ [][Next]_vars

-----------------------------------------------------------------------------
(* The pure functions, each applied once to an input drawn from a bounded  *)
(* set.                                                                    *)

NotCalled == Raised("not called")

MaxHeightLen == 4

HeightAlphabet == {"1", "2", "6", "-", "x"}

RECURSIVE StringsOfLen(_)
StringsOfLen(n) ==
    IF n = 0 THEN {""}
    ELSE {s \o c : s \in StringsOfLen(n - 1), c \in HeightAlphabet}

HeightInputs ==
    UNION {StringsOfLen(n) : n \in 0..MaxHeightLen}
        \cup {"6-2", "5-11", "72", "6-2-3", "6-0", "+6-2", " 6 - 2 ", "6-1_0", "6-1__0"}

InitHeight ==
    /\ PipeIdle
    /\ height_string \in HeightInputs
    /\ height_ret = NotCalled
    /\ score_args = <<>>
    /\ score_ret = NotCalled
    /\ merge_in = <<>>
    /\ merge_ret = NoFrame

CallConvertHeight ==
    /\ height_ret = NotCalled
    /\ height_ret' = convert_height_to_inches(height_string)
    /\ UNCHANGED <<height_string, score_args, score_ret, merge_in, merge_ret>>
    /\ UNCHANGED pipe_vars

SpecHeight == InitHeight /\ [][CallConvertHeight]_vars

MaxStat == 1

ScoreExamples ==
    {<<1, 0, 10, 0, 0, 0, 0, 0, 0, 0>>, <<0, 0, 0, 0, 4, 0, 1, 1, 0, 0>>,
     <<0, 0, 0, 0, 0, 1, 0, 0, 25, 1>>, <<1, 0, 50, 0, 0, 0, 0, 1, 0, 0>>}

InitScore ==
    /\ PipeIdle
    /\ height_string = ""
    /\ height_ret = NotCalled
    /\ score_args \in [1..10 -> 0..MaxStat] \cup ScoreExamples
    /\ score_ret = NotCalled
    /\ merge_in = <<>>
    /\ merge_ret = NoFrame

CallScoring ==
    /\ score_ret = NotCalled
    /\ score_ret' = Returned(half_ppr_scoring(score_args[1], score_args[2], score_args[3],
                                               score_args[4], score_args[5], score_args[6],
                                               score_args[7], score_args[8], score_args[9],
                                               score_args[10]))
    /\ UNCHANGED <<height_string, height_ret, score_args, merge_in, merge_ret>>
    /\ UNCHANGED pipe_vars

SpecScore == InitScore /\ [][CallScoring]_vars

\* Frames for the join: the key column, plus any of a few other columns; a
\* value says which frame and which row it came from.
SideFrame(side, key, others, keys) ==
    Frame({key} \cup others, RangeIndex(Len(keys)),
          [i \in 1..Len(keys) |->
              [c \in {key} \cup others |-> IF c = key THEN <<keys[i]>> ELSE <<side, i>>]])

JoinInputs ==
    {[left |-> SideFrame("left", "pfr_id", lc, lk),
      right |-> SideFrame("right", rkey, rc, rk),
      left_on |-> <<"pfr_id">>, right_on |-> <<rkey>>] :
        lc \in SUBSET {"team", "position", "late_DROPS"},
        rc \in SUBSET {"team", "position", "opponent"},
        lk \in {<<1>>, <<1, 2>>},
        rk \in {<<1>>, <<2, 1>>, <<1, 1>>},
        rkey \in {"pfr_id", "pfr_player_id"}}

InitJoin ==
    /\ PipeIdle
    /\ height_string = ""
    /\ height_ret = NotCalled
    /\ score_args = <<>>
    /\ score_ret = NotCalled
    /\ merge_in \in JoinInputs
    /\ merge_ret = NoFrame

CallMergeDropRight ==
    /\ merge_in # <<>>
    /\ merge_ret = NoFrame
    /\ merge_ret' = MergeDropRight(merge_in.left, merge_in.right, merge_in.left_on,
                                   merge_in.right_on)
    /\ UNCHANGED <<height_string, height_ret, score_args, score_ret, merge_in>>
    /\ UNCHANGED pipe_vars

SpecJoin == InitJoin /\ [][CallMergeDropRight]_vars

-----------------------------------------------------------------------------
(* The claims.                                                             *)

\* The tables process_data has written, and whether the run wrote one.
Written == files
Finished == pc = "done"

\* The raw WeeklyPerformance rows of one (player_id, season, week).
Segments(player_id, season, week) ==
    {k \in 1..Len(extracts.weekly.rows) :
        GroupKey(extracts.weekly.rows[k]) = <<player_id, season, week>>}

RECURSIVE TotalOf(_, _)
TotalOf(c, ks) ==
    IF ks = {} THEN 0
    ELSE LET k == CHOOSE k \in ks : TRUE
         IN  extracts.weekly.rows[k][c] + TotalOf(c, ks \ {k})

\* The raw total of column c over the segments of row r's key.
RawTotal(c, r) == TotalOf(c, Segments(r.player_id, r.season, r.week))

\* C1: in the written table no two rows share player_id, season and week.
C1_OneRowPerKey ==
    Finished =>
        \A f \in Written : \A i, j \in 1..Len(f.rows) :
            (/\ f.rows[i].player_id = f.rows[j].player_id
             /\ f.rows[i].season = f.rows[j].season
             /\ f.rows[i].week = f.rows[j].week) => i = j

\* C2: half_ppr_scoring returns, in fiftieths of a point, 6 per rushing and
\* receiving touchdown, 0.1 per rushing and receiving yard, 0.5 per reception,
\* 4 per passing touchdown, -1 per interception, -2 per fumble, 1/25 per
\* passing yard and 2 per two-point conversion, and nothing else; the three
\* worked examples give 7.0, -1.0 and 7.0.
C2_HalfPprFormula ==
    score_ret # NotCalled =>
        /\ score_ret.ok
        /\ score_ret.value =
               50 * (6 * score_args[1] + 6 * score_args[2] + 4 * score_args[6]
                     - score_args[7] - 2 * score_args[8] + 2 * score_args[10])
               + 5 * (score_args[3] + score_args[4]) + 25 * score_args[5]
               + 2 * score_args[9]
        /\ score_args = <<1, 0, 10, 0, 0, 0, 0, 0, 0, 0>> => score_ret.value = 350
        /\ score_args = <<0, 0, 0, 0, 4, 0, 1, 1, 0, 0>> => score_ret.value = -50
        /\ score_args = <<0, 0, 0, 0, 0, 1, 0, 0, 25, 1>> => score_ret.value = 350

C2_Witness ==
    /\ score_args = <<0, 0, 0, 0, 4, 0, 1, 1, 0, 0>>
    /\ score_ret = Returned(-50)

\* What justifies an output row r: a roster row ro and a snap row sn of the
\* extracts that r was joined from.
JoinedFrom(r, ro, sn) ==
    /\ ro.player_id = r.player_id
    /\ ro.team = r.team
    /\ ro.rookie_year = Float(r.rookie_year)
    /\ ro.position \in DOMAIN r
    /\ r[ro.position] = 1
    /\ sn.pfr_player_id = ro.pfr_id
    /\ sn.season = r.season
    /\ sn.week = r.week
    /\ sn.opponent = r.opponent

PositivePoints(r) ==
    RawTotal("fantasy_points", r) > 0 \/ RawTotal("fantasy_points_ppr", r) > 0

\* The activity test passes on points alone, or also on a roster status of
\* 'Active' when roster_status_counts.
PassesFilters(r, ro, sn, roster_status_counts) ==
    /\ ro.position \in {"WR", "RB", "TE", "QB"}
    /\ ro.rookie_year # NaN
    /\ sn.game_type = "REG"
    /\ PositivePoints(r) \/ (roster_status_counts /\ ro.status = "Active")

EveryRowJustified(roster_status_counts) ==
    Finished =>
        \A f \in Written : \A i \in 1..Len(f.rows) :
            \E j \in 1..Len(extracts.roster.rows), k \in 1..Len(extracts.snap.rows) :
                /\ JoinedFrom(f.rows[i], extracts.roster.rows[j], extracts.snap.rows[k])
                /\ PassesFilters(f.rows[i], extracts.roster.rows[j], extracts.snap.rows[k],
                                 roster_status_counts)

\* C3 as stated: every written row comes from a roster row with a skill
\* position and a known rookie_year and from a snap row of a REG game, and its
\* aggregated source fantasy_points or fantasy_points_ppr is positive.
C3_FiltersWithPointsOnly == EveryRowJustified(FALSE)

\* While the filtered columns are still in the frame, no later statement
\* holds a row that fails a filter already applied.
FiltersStay ==
    /\ pc \in {"convert_heights", "filter_active", "join_snap", "filter_regular_season",
               "join_teams", "one_hot", "drop_shape_columns"} =>
           \A k \in 1..Len(data.rows) : data.rows[k].position \in {"WR", "RB", "TE", "QB"}
    /\ pc \in {"join_snap", "filter_regular_season"} =>
           \A k \in 1..Len(data.rows) :
               \/ data.rows[k].fantasy_points > 0
               \/ data.rows[k].fantasy_points_ppr > 0
               \/ \E j \in 1..Len(extracts.roster.rows) :
                      /\ extracts.roster.rows[j].player_id = data.rows[k].player_id
                      /\ extracts.roster.rows[j].team = data.rows[k].team
                      /\ extracts.roster.rows[j].status = "Active"

\* C3, amended: as C3, but a row passes the activity test when its aggregated
\* source fantasy_points or fantasy_points_ppr is positive or its roster
\* status is already 'Active'.
C3_FiltersWithRosterStatus ==
    EveryRowJustified(TRUE) /\ FiltersStay

\* A written row with no positive source points, kept by its roster status;
\* the extracts also held rows that each of the other filters removed.
C3_Witness ==
    /\ Finished
    /\ \E f \in Written : \E i \in 1..Len(f.rows) : ~PositivePoints(f.rows[i])
    /\ \E j \in 1..Len(extracts.roster.rows) :
           extracts.roster.rows[j].position \notin {"WR", "RB", "TE", "QB"}
    /\ \E k \in 1..Len(extracts.snap.rows) : extracts.snap.rows[k].game_type # "REG"

\* C4: convert_height_to_inches returns feet*12 + inches when the string
\* splits on '-' into exactly two integer-parsable parts, and fails for every
\* other string.
C4_ExactlyTwoParts ==
    height_ret # NotCalled =>
        LET parts == Split(height_string, "-") IN
        IF Len(parts) = 2 /\ IntParsable(parts[1]) /\ IntParsable(parts[2])
        THEN height_ret = Returned(ParseInt(parts[1]) * 12 + ParseInt(parts[2]))
        ELSE ~height_ret.ok

\* The exceptions of the extraction and transformation stages.
StageErrors == {"AssertionError", "KeyError", "IndexError", "ValueError"}

\* Where the claim has the table written.
ExpectedPath ==
    IF IsDir(args.data_filepath, dirs0) THEN PathJoin(args.data_filepath, "data.csv")
    ELSE args.data_filepath

\* C5: a run whose extraction and transformation stages succeed writes the
\* table: as data.csv inside data_filepath when that is an existing directory,
\* else at data_filepath, whose parent directory is created when absent, also
\* when data_filepath has no directory component.
C5_OutputWritten ==
    /\ pc = "failed" => error \in StageErrors
    /\ Finished =>
           /\ \E f \in Written : f.path = ExpectedPath
           /\ PathSplit(ExpectedPath)[1] \in dirs \cup {""}

\* The run has failed without a file, and a file exists only once the last
\* statement has run.
NoPartialOutput ==
    /\ pc = "failed" => files = {}
    /\ files # {} => Finished

\* C6 as stated: a failed run leaves no output, the file is written only by
\* the last statement, and with end_year <= start_year the run aborts before
\* any extract is requested and leaves the filesystem as it found it.
C6_FilesystemUntouched ==
    /\ NoPartialOutput
    /\ args.end_year <= args.start_year =>
           /\ ~pulled
           /\ pc \notin {"aggregate", "done"}
           /\ pc = "failed" => files = {} /\ dirs = dirs0

\* C6, amended: a failed run leaves no output file, the file is written only
\* by the last statement, and with end_year <= start_year the run aborts
\* before any extract is requested and writes no file; the parent directory
\* of data_filepath may already have been created.
C6_NoOutputFile ==
    /\ NoPartialOutput
    /\ args.end_year <= args.start_year =>
           /\ ~pulled
           /\ pc \notin {"aggregate", "done"}
           /\ pc = "failed" =>
                  /\ files = {}
                  /\ dirs \subseteq dirs0 \cup WithParents(PathSplit(args.data_filepath)[1])

\* The run aborted on the assert after it had created the output directory.
C6_Witness ==
    /\ pc = "failed"
    /\ error = "AssertionError"
    /\ args.end_year <= args.start_year
    /\ dirs # dirs0
    /\ files = {}

\* C7: after the collision-dropping join, a column name carried by both
\* frames that is not a join key names exactly one column, holding the left
\* frame's values, and every column only the left frame has is still there.
C7_LeftKept ==
    merge_ret # NoFrame =>
        LET left == merge_in.left
            right == merge_in.right
            keys == {merge_in.left_on[1], merge_in.right_on[1]}
        IN  /\ \A c \in (left.cols \cap right.cols) \ keys :
                   /\ c \in merge_ret.cols
                   /\ (c \o "_DROP") \notin merge_ret.cols
                   /\ \A k \in 1..Len(merge_ret.rows) : merge_ret.rows[k][c][1] = "left"
            /\ \A c \in left.cols \ right.cols : c \in merge_ret.cols

\* C8: the written table holds no two rows equal in every column.
C8_NoDuplicateRows ==
    Finished =>
        \A f \in Written : \A i, j \in 1..Len(f.rows) : f.rows[i] = f.rows[j] => i = j

\* Two roster rows of one player that differ in the season alone gave two
\* equal joined rows, of which the written table holds one.
C8_Witness ==
    /\ Finished
    /\ \E f \in Written : \E i \in 1..Len(f.rows) :
           \E j, k \in 1..Len(extracts.roster.rows) :
               /\ j # k
               /\ extracts.roster.rows[j].player_id = f.rows[i].player_id
               /\ [extracts.roster.rows[j] EXCEPT !.season = 0]
                      = [extracts.roster.rows[k] EXCEPT !.season = 0]

\* The fiftieths of a point the claim's formula gives row r from the raw
\* totals of its key.
ScoreOfRawTotals(r) ==
    300 * RawTotal("rushing_tds", r) + 300 * RawTotal("receiving_tds", r)
    + 5 * RawTotal("rushing_yards", r) + 5 * RawTotal("receiving_yards", r)
    + 25 * RawTotal("receptions", r) + 200 * RawTotal("passing_tds", r)
    - 50 * RawTotal("interceptions", r)
    - 100 * (RawTotal("sack_fumbles_lost", r) + RawTotal("rushing_fumbles_lost", r)
             + RawTotal("receiving_fumbles_lost", r))
    + 2 * RawTotal("passing_yards", r)
    + 100 * (RawTotal("passing_2pt_conversions", r) + RawTotal("rushing_2pt_conversions", r)
             + RawTotal("receiving_2pt_conversions", r))

\* C9: every written row's fantasy_half_ppr is the scoring formula applied to
\* the sums of the raw weekly rows of its key, and the aggregate holds exactly
\* one row per distinct key and every column's sum.
C9_ScoreOfSums ==
    /\ Finished =>
           \A f \in Written : \A i \in 1..Len(f.rows) :
               f.rows[i].fantasy_half_ppr = ScoreOfRawTotals(f.rows[i])
    /\ pc = "join_roster" =>
           /\ {GroupKey(data.rows[k]) : k \in 1..Len(data.rows)}
                  = {GroupKey(extracts.weekly.rows[k]) : k \in 1..Len(extracts.weekly.rows)}
           /\ \A i, j \in 1..Len(data.rows) :
                  GroupKey(data.rows[i]) = GroupKey(data.rows[j]) => i = j
           /\ \A i \in 1..Len(data.rows) : \A c \in WeeklyNumericCols :
                  data.rows[i][c] = RawTotal(c, data.rows[i])

\* Two segments of one week, 50 rushing yards, a rushing touchdown and a
\* fumble lost between them, are written as one row scoring 9.0.
C9_Witness ==
    /\ Finished
    /\ \E f \in Written : \E i \in 1..Len(f.rows) :
           /\ Cardinality(Segments(f.rows[i].player_id, f.rows[i].season, f.rows[i].week)) = 2
           /\ f.rows[i].rushing_yards = 50
           /\ f.rows[i].rushing_tds = 1
           /\ f.rows[i].rushing_fumbles_lost = 1
           /\ f.rows[i].fantasy_half_ppr = 450

\* Row r has the indicator of position p set and no other.
OnlyIndicator(r, p, indicators) ==
    /\ p \in indicators
    /\ \A q \in indicators : r[q] = IF q = p THEN 1 ELSE 0

\* The one-hot statement keeps every row, in place, and sets on each the
\* indicator of that row's own position alone.
OneHotStep ==
    pc = "one_hot" /\ pc' = "drop_shape_columns" =>
        /\ Len(data'.rows) = Len(data.rows)
        /\ \A k \in 1..Len(data.rows) :
               /\ Restrict(data'.rows[k], data.cols) = data.rows[k]
               /\ OnlyIndicator(data'.rows[k], data.rows[k].position,
                                data'.cols \ data.cols)

\* C10: one-hot expansion by index alignment sets on every row exactly the
\* indicator of its own position, and neither drops nor multiplies rows; every
\* written row has exactly one position indicator set.
C10_OneHotAligned ==
    /\ [][OneHotStep]_vars
    /\ [](Finished =>
            \A f \in Written : \A i \in 1..Len(f.rows) :
                \E p \in {"WR", "RB", "TE", "QB"} \cap f.cols :
                    OnlyIndicator(f.rows[i], p, {"WR", "RB", "TE", "QB"} \cap f.cols))

\* After the expansion the frame holds rows of two positions.
C10_Witness ==
    /\ pc = "drop_shape_columns"
    /\ {"RB", "QB"} \subseteq data.cols
    /\ \E i, j \in 1..Len(data.rows) :
           /\ data.rows[i].position = "RB" /\ data.rows[i].RB = 1 /\ data.rows[i].QB = 0
           /\ data.rows[j].position = "QB" /\ data.rows[j].QB = 1 /\ data.rows[j].RB = 0

====
